---- MODULE Spec2Model ----
(***************************************************************************)
(* goplay (main.go): the report of NumCPU, $GOMAXPROCS, the affinity mask, *)
(* runtime.GOMAXPROCS and the cgroup CPU limit of the calling process.     *)
(*                                                                         *)
(* Representation of the program's values:                                 *)
(*  - a string that the code splits is kept in its split form: a line of   *)
(*    /proc/self/cgroup is the sequence strings.Split(line, ":"), a path   *)
(*    is the sequence strings.Split(path, "/"), a quota file is the        *)
(*    sequence strings.Fields(content);                                    *)
(*  - a string that the code parses or searches is a sequence of           *)
(*    one-character strings (a token "-1" is <<"-", "1">>);                *)
(*  - a cleaned absolute path is the sequence of its directory names       *)
(*    ("/" is <<>>, "/sys/fs" is <<"sys", "fs">>);                         *)
(*  - a float64 is an exact fraction n/d in lowest terms with d > 0, or    *)
(*    +Inf.  The quotas and periods of the model are small integers, for   *)
(*    which float64(q) is exact and the correctly rounded quotient orders  *)
(*    and rounds up (math.Ceil) as the exact one does.                     *)
(***************************************************************************)
EXTENDS Integers, Sequences, FiniteSets, TLC

---------------------------------------------------------------------------
(* Bounds of the model *)

\* most lines read from /proc/self/cgroup
MaxLines == 2
\* deepest nesting of the process's cgroup below the namespace root
MaxDown == 2
\* most ".." components of a cgroup path read from /proc/self/cgroup
MaxUp == 4

---------------------------------------------------------------------------
(* float64 *)

Abs(x) == IF x < 0 THEN -x ELSE x

RECURSIVE GCD(_, _)
GCD(a, b) == IF b = 0 THEN a ELSE GCD(b, a % b)

Inf == [k |-> "inf", n |-> 1, d |-> 0]
Rat(n, d) == [k |-> "rat", n |-> n, d |-> d]
Whole(n) == Rat(n, 1)

IsInf(x) == x.k = "inf"

\* float64(q) / float64(p), p # 0
FloatDiv(q, p) ==
    LET g == GCD(Abs(q), Abs(p))
        s == IF p < 0 THEN -1 ELSE 1
    IN  Rat((s * q) \div g, (s * p) \div g)

\* x < y
FloatLess(x, y) ==
    IF IsInf(x) THEN FALSE
    ELSE IF IsInf(y) THEN TRUE
    ELSE x.n * y.d < y.n * x.d

FloatLeq(x, y) == x = y \/ FloatLess(x, y)

MathMin(x, y) == IF FloatLess(y, x) THEN y ELSE x

MathMax(x, y) == IF FloatLess(x, y) THEN y ELSE x

MathCeil(x) == IF IsInf(x) THEN x ELSE Whole(-((-x.n) \div x.d))

---------------------------------------------------------------------------
(* strings *)

Digits == {"0", "1", "2", "3", "4", "5", "6", "7", "8", "9"}

DigitVal(c) ==
    CASE c = "0" -> 0 [] c = "1" -> 1 [] c = "2" -> 2 [] c = "3" -> 3
      [] c = "4" -> 4 [] c = "5" -> 5 [] c = "6" -> 6 [] c = "7" -> 7
      [] c = "8" -> 8 [] c = "9" -> 9

RECURSIVE DigitsValue(_)
DigitsValue(s) ==
    IF s = <<>> THEN 0
    ELSE 10 * DigitsValue(SubSeq(s, 1, Len(s) - 1)) + DigitVal(s[Len(s)])

\* strconv.ParseInt(s, 10, 64): an optional sign, then one or more digits
ParseInt(s) ==
    LET body == IF s # <<>> /\ s[1] \in {"+", "-"} THEN Tail(s) ELSE s
    IN  IF body = <<>> \/ \E i \in 1..Len(body) : body[i] \notin Digits
        THEN [ok |-> FALSE, v |-> 0]
        ELSE [ok |-> TRUE,
              v |-> IF s[1] = "-" THEN -DigitsValue(body) ELSE DigitsValue(body)]

\* strings.Contains(s, sub)
Contains(s, sub) ==
    \E i \in 0..(Len(s) - Len(sub)) : SubSeq(s, i + 1, i + Len(sub)) = sub

---------------------------------------------------------------------------
(* paths *)

RECURSIVE CleanFrom(_, _)
CleanFrom(acc, rest) ==
    IF rest = <<>> THEN acc
    ELSE LET c == Head(rest)
             next == IF c \in {"", "."} THEN acc
                     ELSE IF c = ".." THEN SubSeq(acc, 1, Len(acc) - 1)
                     ELSE Append(acc, c)
         IN  CleanFrom(next, Tail(rest))

\* filepath.Clean of a rooted path in split form: the directory names left
\* ("" and "." dropped, ".." removes the name before it, and is dropped at "/")
Clean(parts) == CleanFrom(<<>>, parts)

\* filepath.Join(a, b), a rooted: empty elements are ignored, the rest are
\* joined with "/" and cleaned
Join(a, b) == IF b = <<"">> THEN Clean(a) ELSE Clean(a \o b)

\* filepath.Dir of a cleaned absolute path
Dir(path) == IF path = <<>> THEN <<>> ELSE SubSeq(path, 1, Len(path) - 1)

\* "/sys/fs/cgroup/cpu"
cgroupV1CPUPath == <<"", "sys", "fs", "cgroup", "cpu">>
\* "/sys/fs/cgroup"
cgroupV2Path == <<"", "sys", "fs", "cgroup">>
cgroupV1UnlimitedQuota == -1

---------------------------------------------------------------------------
(* per-level quota files *)

NoFile == [exists |-> FALSE, fields |-> <<>>]
FileOf(fields) == [exists |-> TRUE, fields |-> fields]

NoError == "nil"
LevelError == "level"
Result(limit, err) == [limit |-> limit, err |-> err]

\* readIntFromFile: os.ReadFile, strings.TrimSpace, strconv.ParseInt
readIntFromFile(file) ==
    IF ~file.exists \/ Len(file.fields) # 1 THEN [ok |-> FALSE, v |-> 0]
    ELSE ParseInt(file.fields[1])

\* variant: the period read and checked before the quota is looked at
calculateV1PeriodFirst(quotaFile, periodFile) ==
    LET quota == readIntFromFile(quotaFile)
        period == readIntFromFile(periodFile)
    IN  IF ~quota.ok THEN Result(Whole(0), LevelError)
        ELSE IF ~period.ok THEN Result(Whole(0), LevelError)
        ELSE IF quota.v = cgroupV1UnlimitedQuota THEN Result(Inf, NoError)
        ELSE IF period.v = 0 THEN Result(Whole(0), LevelError)
        ELSE Result(FloatDiv(quota.v, period.v), NoError)

calculateV1CPUQuota(quotaFile, periodFile) ==
    LET quota == readIntFromFile(quotaFile)
        period == readIntFromFile(periodFile)
    IN  IF ~quota.ok THEN Result(Whole(0), LevelError)
        ELSE IF quota.v = cgroupV1UnlimitedQuota THEN Result(Inf, NoError)
        ELSE IF ~period.ok THEN Result(Whole(0), LevelError)
        ELSE IF period.v = 0 THEN Result(Whole(0), LevelError)
        ELSE Result(FloatDiv(quota.v, period.v), NoError)

calculateV2CPUQuota(maxFile) ==
    LET parts == maxFile.fields
        quota == ParseInt(parts[1])
        period == ParseInt(parts[2])
    IN  IF ~maxFile.exists THEN Result(Whole(0), LevelError)
        ELSE IF Len(parts) # 2 THEN Result(Whole(0), LevelError)
        ELSE IF parts[1] = <<"m", "a", "x">> THEN Result(Inf, NoError)
        ELSE IF ~quota.ok THEN Result(Whole(0), LevelError)
        ELSE IF ~period.ok THEN Result(Whole(0), LevelError)
        ELSE IF period.v = 0 THEN Result(Whole(0), LevelError)
        ELSE Result(FloatDiv(quota.v, period.v), NoError)

---------------------------------------------------------------------------
(* /proc/self/cgroup *)

RECURSIVE ScanLines(_, _)
ScanLines(controller, rest) ==
    IF rest = <<>> THEN <<>>
    ELSE LET parts == Head(rest)
         IN  IF Len(parts) = 3
                /\ \/ controller # <<>> /\ Contains(parts[2], controller)
                   \/ controller = <<>> /\ parts[2] = <<>>
             THEN <<parts>>
             ELSE ScanLines(controller, Tail(rest))

\* getProcessCgroupPath on a file that opens or not (open), holds the lines
\* the scanner delivers (text) and ends the scan with or without an error
\* (scanErr); parts is the line returned from
getProcessCgroupPath(controller, open, text, scanErr) ==
    LET found == ScanLines(controller, text)
    IN  IF ~open THEN [path |-> <<>>, err |-> "open", parts |-> <<>>]
        ELSE IF found # <<>>
             THEN [path |-> found[1][3], err |-> NoError, parts |-> found[1]]
        ELSE IF scanErr THEN [path |-> <<>>, err |-> "scan", parts |-> <<>>]
        ELSE [path |-> <<>>, err |-> "not found", parts |-> <<>>]

---------------------------------------------------------------------------
(* the inputs of a run *)

tMax == <<"m", "a", "x">>
tBad == <<"x">>
Tok(c) == <<c>>

t23 == <<"2", "3">>
t10 == <<"1", "0">>

\* the contents of cpu.max at one level
V2Files ==
    { NoFile, FileOf(<<>>), FileOf(<<tMax>>), FileOf(<<tMax, tBad>>),
      FileOf(<<tMax, Tok("0")>>), FileOf(<<tMax, Tok("1"), Tok("1")>>),
      FileOf(<<Tok("0"), Tok("1")>>), FileOf(<<Tok("1"), Tok("2")>>),
      FileOf(<<Tok("2"), Tok("2")>>), FileOf(<<t23, t10>>),
      FileOf(<<Tok("4"), Tok("1")>>), FileOf(<<Tok("5"), Tok("1")>>),
      FileOf(<<Tok("4"), Tok("0")>>), FileOf(<<tBad, Tok("1")>>),
      FileOf(<<Tok("1"), tBad>>), FileOf(<<Tok("1"), Tok("2"), Tok("3")>>) }

\* the contents of cpu.cfs_quota_us and cpu.cfs_period_us at one level
V1Files ==
    { <<NoFile, FileOf(<<Tok("2")>>)>>,
      <<FileOf(<<tBad>>), FileOf(<<Tok("2")>>)>>,
      <<FileOf(<<Tok("1"), Tok("2")>>), FileOf(<<Tok("2")>>)>>,
      <<FileOf(<<<<"-", "1">>>>), NoFile>>,
      <<FileOf(<<<<"-", "1">>>>), FileOf(<<tBad>>)>>,
      <<FileOf(<<<<"-", "1">>>>), FileOf(<<Tok("0")>>)>>,
      <<FileOf(<<<<"-", "1">>>>), FileOf(<<t10>>)>>,
      <<FileOf(<<<<"-", "2">>>>), FileOf(<<Tok("1")>>)>>,
      <<FileOf(<<Tok("0")>>), FileOf(<<Tok("2")>>)>>,
      <<FileOf(<<Tok("1")>>), FileOf(<<Tok("2")>>)>>,
      <<FileOf(<<Tok("2")>>), FileOf(<<Tok("2")>>)>>,
      <<FileOf(<<t23>>), FileOf(<<t10>>)>>,
      <<FileOf(<<Tok("4")>>), FileOf(<<Tok("1")>>)>>,
      <<FileOf(<<Tok("5")>>), FileOf(<<Tok("1")>>)>>,
      <<FileOf(<<Tok("4")>>), FileOf(<<Tok("0")>>)>>,
      <<FileOf(<<Tok("4")>>), FileOf(<<tBad>>)>>,
      <<FileOf(<<Tok("4")>>), NoFile>> }

RECURSIVE Ups(_)
Ups(k) == IF k = 0 THEN <<>> ELSE <<"..">> \o Ups(k - 1)

Downs(j) == SubSeq(<<"a", "b", "c", "d">>, 1, j)

\* a path "/x/y" in split form
Rooted(names) == IF names = <<>> THEN <<"", "">> ELSE <<"">> \o names

\* the cgroup paths of /proc/self/cgroup: below the cgroup namespace root,
\* above it ("/../.."), empty, relative and with a repeated slash
CgroupPaths ==
    { Rooted(Downs(j)) : j \in 0..MaxDown }
      \cup { Rooted(Ups(k)) : k \in 1..MaxUp }
      \cup { <<"">>, <<"a">>, <<"", "", "a">>, <<"", "..", "s">> }

cCpu == <<"c", "p", "u">>
cCpuAcct == <<"c", "p", "u", ",", "c", "p", "u", "a", "c", "c", "t">>
cCpuset == <<"c", "p", "u", "s", "e", "t">>
cMemory == <<"m", "e", "m", "o", "r", "y">>

Lines ==
    { <<Tok("4"), c, p>> : c \in {cCpuAcct, <<>>}, p \in CgroupPaths }
      \cup { <<Tok("9"), cCpuset, Rooted(<<"s">>)>>,
             <<Tok("7"), cMemory, Rooted(<<"m">>)>>,
             <<Tok("1"), cCpu>>,
             <<Tok("1"), <<>>, <<"", "a">>, <<"b">>>> }

RECURSIVE SeqsUpTo(_, _)
SeqsUpTo(S, n) ==
    IF n = 0 THEN {<<>>}
    ELSE LET shorter == SeqsUpTo(S, n - 1)
         IN  shorter \cup { Append(q, x) : q \in shorter, x \in S }

---------------------------------------------------------------------------
(* the program *)

VARIABLES
    pc,          \* the position of main
    out,         \* the lines printed so far
    v2Marker,    \* /sys/fs/cgroup/cgroup.controllers exists
    v1Dir,       \* /sys/fs/cgroup/cpu exists
    version,     \* the branch getEffectiveCPULimit took
    member,      \* /proc/self/cgroup: unopened, open (its lines, the scan's end), closed
    lookup,      \* what getProcessCgroupPath returned
    rootPath, startPath, currentPath, minLimit,   \* walkHierarchy's locals
    files,       \* the quota files calcFunc read last
    levels,      \* per calcFunc call: the directory and the result
    limit,       \* what getEffectiveCPULimit returned
    ret          \* what cgroupLimit returned

vars == <<pc, out, v2Marker, v1Dir, version, member, lookup, rootPath,
          startPath, currentPath, minLimit, files, levels, limit, ret>>

env == <<v2Marker, v1Dir>>
walk == <<rootPath, startPath, currentPath, minLimit, files, levels>>

Member(state, text, scanErr) == [state |-> state, text |-> text, scanErr |-> scanErr]
NoLookup == [path |-> <<>>, err |-> "none", parts |-> <<>>]
NoLimit == Result(Whole(0), "none")
NoReturn == [eff |-> Whole(0), adj |-> Whole(0), err |-> "none"]

Init ==
    /\ pc = "main"
    /\ out = <<>>
    /\ v2Marker \in BOOLEAN
    /\ v1Dir \in BOOLEAN
    /\ version = "none"
    /\ member = Member("unopened", <<>>, FALSE)
    /\ lookup = NoLookup
    /\ rootPath = <<>>
    /\ startPath = <<>>
    /\ currentPath = <<>>
    /\ minLimit = Inf
    /\ files = <<NoFile, NoFile>>
    /\ levels = <<>>
    /\ limit = NoLimit
    /\ ret = NoReturn

\* main, lines 17-24
PrintMetrics ==
    /\ pc = "main"
    /\ out' = <<"title", "based on", "", "NumCPU", "$GOMAXPROCS",
                "sched_getaffinity(2)", "runtime.GOMAXPROCS(-1)",
                "cgroup limit">>
    /\ pc' = "detect"
    /\ UNCHANGED <<env, version, member, lookup, walk, limit, ret>>

\* variant: the V1 directory probed first
detectVersionV1First(marker, dir) ==
    IF dir THEN "v1" ELSE IF marker THEN "v2" ELSE "none"

detectVersion(marker, dir) ==
    IF marker THEN "v2" ELSE IF dir THEN "v1" ELSE "none"

\* getEffectiveCPULimit
Detect ==
    /\ pc = "detect"
    /\ version' = detectVersion(v2Marker, v1Dir)
    /\ IF version' = "none"
       THEN limit' = Result(Whole(0), NoError) /\ pc' = "limit"
       ELSE limit' = limit /\ pc' = "open"
    /\ UNCHANGED <<out, env, member, lookup, walk, ret>>

controllerOf(v) == IF v = "v1" THEN cCpu ELSE <<>>
rootOf(v) == IF v = "v1" THEN cgroupV1CPUPath ELSE cgroupV2Path

\* getProcessCgroupPath, os.Open: the file does not open, or opens on some
\* lines
OpenMember ==
    /\ pc = "open"
    /\ \/ /\ member' = Member("failed", <<>>, FALSE)
          /\ lookup' = getProcessCgroupPath(controllerOf(version), FALSE, <<>>, FALSE)
          /\ limit' = Result(Whole(0), lookup'.err)
          /\ pc' = "limit"
       \/ /\ \E text \in SeqsUpTo(Lines, MaxLines), scanErr \in BOOLEAN :
                member' = Member("open", text, scanErr)
          /\ UNCHANGED <<lookup, limit>>
          /\ pc' = "scan"
    /\ UNCHANGED <<out, env, version, walk, ret>>

\* getProcessCgroupPath's scan and deferred Close, and the caller
\* (getCgroupV1Limit / getCgroupV2Limit) up to its call of walkHierarchy
ScanMember ==
    /\ pc = "scan"
    /\ lookup' = getProcessCgroupPath(controllerOf(version), TRUE,
                                      member.text, member.scanErr)
    /\ member' = Member("closed", <<>>, FALSE)
    /\ IF lookup'.err # NoError
       THEN /\ limit' = Result(Whole(0), lookup'.err)
            /\ pc' = "limit"
            /\ UNCHANGED walk
       ELSE /\ rootPath' = Clean(rootOf(version))
            /\ startPath' = Join(rootOf(version), lookup'.path)
            /\ currentPath' = startPath'
            /\ minLimit' = Inf
            /\ UNCHANGED <<files, levels, limit>>
            /\ pc' = "walk"
    /\ UNCHANGED <<out, env, version, ret>>

\* variant: a level's error returned from the walk
walkErrorReturned(r) == r.err

\* what the loop returns on a level's error: nothing, the branch is empty
walkError(r) == NoError

\* variant: the last sample kept instead of the least
walkFoldLast(min, r) == IF r.err # NoError THEN min ELSE r.limit

walkFold(min, r) == IF r.err # NoError THEN min ELSE MathMin(min, r.limit)

\* variant: no stop at "/"
walkStopsAtMountRoot(path, root) == path = root

walkStops(path, root) == path = root \/ path = <<>>

\* one iteration of walkHierarchy's loop
WalkLevel(read, r) ==
    /\ files' = read
    /\ levels' = Append(levels, [dir |-> currentPath, r |-> r])
    /\ IF walkError(r) # NoError
       THEN /\ limit' = Result(Whole(0), walkError(r))
            /\ pc' = "limit"
            /\ UNCHANGED <<minLimit, currentPath>>
       ELSE /\ minLimit' = walkFold(minLimit, r)
            /\ limit' = limit
            /\ IF walkStops(currentPath, rootPath)
               THEN currentPath' = currentPath /\ pc' = "walked"
               ELSE currentPath' = Dir(currentPath) /\ pc' = "walk"
    /\ UNCHANGED <<out, env, version, member, lookup, rootPath, startPath, ret>>

WalkStep ==
    /\ pc = "walk"
    /\ \/ /\ version = "v1"
          /\ \E f \in V1Files : WalkLevel(f, calculateV1CPUQuota(f[1], f[2]))
       \/ /\ version = "v2"
          /\ \E f \in V2Files : WalkLevel(<<f, NoFile>>, calculateV2CPUQuota(f))

\* variant: +Inf returned as it is
walkResultAsIs(min) == min

walkResult(min) == IF IsInf(min) THEN Whole(0) ELSE min

\* walkHierarchy's return
WalkReturn ==
    /\ pc = "walked"
    /\ limit' = Result(walkResult(minLimit), NoError)
    /\ pc' = "limit"
    /\ UNCHANGED <<out, env, version, member, lookup, walk, ret>>

\* variant: rounded to the nearest whole number instead of up
adjustedLimitRounded(effective) ==
    MathMax(Whole(2), Whole((2 * effective.n + effective.d) \div (2 * effective.d)))
adjustedLimit(effective) == MathMax(Whole(2), MathCeil(effective))

cgroupLimit(r) ==
    IF r.err # NoError THEN [eff |-> Whole(0), adj |-> Whole(0), err |-> r.err]
    ELSE IF r.limit = Whole(0)
         THEN [eff |-> Whole(0), adj |-> Whole(0), err |-> NoError]
    ELSE [eff |-> r.limit, adj |-> adjustedLimit(r.limit), err |-> NoError]

CgroupLimit ==
    /\ pc = "limit"
    /\ ret' = cgroupLimit(limit)
    /\ pc' = "report"
    /\ UNCHANGED <<out, env, version, member, lookup, walk, limit>>

\* variant: the error not looked at
reportLineNoError(r) ==
    IF r.eff = Whole(0) /\ r.adj = Whole(0) THEN "not in cgroup"
    ELSE "effective -- adjusted"

\* main, lines 27-33
reportLine(r) ==
    IF r.err # NoError THEN "error retrieving cgroup limits"
    ELSE IF r.eff = Whole(0) /\ r.adj = Whole(0) THEN "not in cgroup"
    ELSE "effective -- adjusted"

Report ==
    /\ pc = "report"
    /\ out' = Append(out, reportLine(ret))
    /\ pc' = "done"
    /\ UNCHANGED <<env, version, member, lookup, walk, limit, ret>>

Next ==
    \/ PrintMetrics
    \/ Detect
    \/ OpenMember
    \/ ScanMember
    \/ WalkStep
    \/ WalkReturn
    \/ CgroupLimit
    \/ Report

Spec == Init /\ [][Next]_vars

---------------------------------------------------------------------------
(* what the claims speak of *)

\* cgroupLimit has returned
Returned == pc \in {"report", "done"}
\* walkHierarchy ran and has returned
Walked == lookup.err = NoError /\ pc \in {"limit", "report", "done"}

IsPrefix(p, q) == Len(p) <= Len(q) /\ SubSeq(q, 1, Len(p)) = p

\* the directories from start up to stop, stop a prefix of start
UpTo(start, stop) ==
    [i \in 1..(Len(start) - Len(stop) + 1) |-> SubSeq(start, 1, Len(start) - i + 1)]

\* the directories from the leaf up to the mount root
LeafToMountRoot == IF IsPrefix(rootPath, startPath) THEN UpTo(startPath, rootPath) ELSE <<>>
\* the same, and up to "/" from a leaf that is not below the mount root
LeafToRoot == IF IsPrefix(rootPath, startPath) THEN UpTo(startPath, rootPath) ELSE UpTo(startPath, <<>>)

DirsSampled == [i \in 1..Len(levels) |-> levels[i].dir]
\* the samples computed without error, and the finite ones
Samples == { levels[i].r.limit : i \in { j \in 1..Len(levels) : levels[j].r.err = NoError } }
FiniteSamples == { x \in Samples : x.k = "rat" }
\* the least of a set of samples, +Inf for none
Least(S) == IF S = {} THEN Inf ELSE CHOOSE m \in S : \A x \in S : FloatLeq(m, x)

LevelFailed(i) == levels[i].r.err # NoError

\* C1 as stated: walkHierarchy returns the minimum of the samples computed
\* without error at exactly the directories from the leaf up to the mount root.
C1_AsStated ==
    Walked => /\ DirsSampled = LeafToMountRoot
              /\ limit.limit = Least(Samples)

\* C1, amended: the directories sampled are those from the leaf up to the
\* mount root, or up to "/" from a leaf that is not below the mount root; the
\* value returned is the least sample computed without error when that is
\* finite, and 0 when no level gave a finite sample.
C1_WalkMinimum ==
    Walked => /\ DirsSampled = LeafToRoot
              /\ limit.err = NoError
              /\ limit.limit = IF FiniteSamples = {} THEN Whole(0) ELSE Least(Samples)

\* a child without quota files below a root of sample 4.0: 4.0 is returned
C1_Witness ==
    /\ Walked
    /\ Len(levels) = 2
    /\ LevelFailed(1)
    /\ levels[2].r = Result(Whole(4), NoError)
    /\ levels[2].dir = rootPath
    /\ limit = Result(Whole(4), NoError)

\* C2: whenever cgroupLimit returns an effective limit above 0, the adjusted
\* limit is max(2, ceiling(effective)): a whole number, at least 2, at least
\* the effective limit, and 2 or less than 1 above the effective limit
\* (0.5 and 1.0 give 2, 2.3 gives 3, 5.0 gives 5).
C2_Adjusted ==
    /\ Returned /\ FloatLess(Whole(0), ret.eff) =>
          /\ ret.adj.k = "rat" /\ ret.adj.d = 1
          /\ FloatLeq(Whole(2), ret.adj)
          /\ FloatLeq(ret.eff, ret.adj)
          /\ ret.adj = Whole(2) \/ FloatLess(Whole(ret.adj.n - 1), ret.eff)
    /\ Returned /\ ret.eff = Rat(1, 2) => ret.adj = Whole(2)
    /\ Returned /\ ret.eff = Whole(1) => ret.adj = Whole(2)
    /\ Returned /\ ret.eff = Rat(23, 10) => ret.adj = Whole(3)
    /\ Returned /\ ret.eff = Whole(5) => ret.adj = Whole(5)

\* an effective limit of 2.3 is adjusted to 3
C2_Witness == Returned /\ ret.eff = Rat(23, 10) /\ ret.adj = Whole(3)

\* C3: when no level of the walk gives a finite sample, the running minimum
\* stays +Inf and cgroupLimit returns effective 0 and adjusted 0 without an
\* error: the floor of 2 is not applied.
C3_Sentinel ==
    Walked /\ FiniteSamples = {} =>
        /\ IsInf(minLimit)
        /\ limit = Result(Whole(0), NoError)
        /\ Returned => ret = [eff |-> Whole(0), adj |-> Whole(0), err |-> NoError]

\* a walk of an unlimited level and a level without files has returned
C3_Witness ==
    /\ Returned /\ Walked
    /\ Len(levels) = 2
    /\ LevelFailed(1)
    /\ levels[2].r = Result(Inf, NoError)
    /\ ret = [eff |-> Whole(0), adj |-> Whole(0), err |-> NoError]

\* the walk ascends one directory at a time from the leaf
Ascends ==
    /\ \A i \in 1..Len(levels) : levels[i].dir = SubSeq(startPath, 1, Len(startPath) - i + 1)
    /\ pc = "walk" => currentPath = SubSeq(startPath, 1, Len(startPath) - Len(levels))
    /\ pc = "walk" => \A i \in 1..Len(levels) : levels[i].dir # rootPath /\ levels[i].dir # <<>>

RECURSIVE SplitFrom(_, _, _, _)
SplitFrom(done, cur, rest, sep) ==
    IF rest = <<>> THEN Append(done, cur)
    ELSE IF Head(rest) = sep THEN SplitFrom(Append(done, cur), <<>>, Tail(rest), sep)
    ELSE SplitFrom(done, Append(cur, Head(rest)), Tail(rest), sep)

\* the controllers of a line's comma-separated controller list
Controllers(list) ==
    LET names == SplitFrom(<<>>, <<>>, list, ",") IN { names[i] : i \in 1..Len(names) }

\* a line of /proc/self/cgroup of the selected version: "id:controllers:path"
\* with cpu among the controllers (v1), "id::path" (v2)
LineOf(v, parts) ==
    /\ Len(parts) = 3
    /\ IF v = "v1" THEN cCpu \in Controllers(parts[2]) ELSE parts[2] = <<>>

C4_Levels ==
    /\ limit.err \notin {"none", NoError} =>
          /\ limit.err = lookup.err
          /\ lookup.err \in {"open", "scan", "not found"}
          /\ levels = <<>>
    /\ Returned => ret.err = limit.err
    /\ lookup.err = NoError => Ascends
    /\ Walked => /\ limit.err = NoError
                 /\ DirsSampled = LeafToRoot
                 /\ \A i, j \in 1..Len(levels) : levels[i].dir = levels[j].dir => i = j

C4_Lookup ==
    pc = "scan" /\ lookup'.err # NoError =>
        /\ \A i \in 1..Len(member.text) : ~LineOf(version, member.text[i])
        /\ lookup'.err = "scan" => member.scanErr

\* C4: cgroupLimit returns an error only when /proc/self/cgroup does not
\* open, its scan fails, or no line of it is of the selected version (and
\* then no level is sampled); a level whose quota files are missing or
\* malformed gives no error and does not stop the walk: the walk goes on to
\* the parent and samples every directory up to the one it stops at, each
\* once.
C4_ErrorsOnlyFromLookup == [](C4_Levels) /\ [][C4_Lookup]_vars

\* a leaf with a malformed or missing quota file, its parent sampled after it
C4_Witness ==
    /\ Returned /\ Walked
    /\ Len(levels) = 3
    /\ LevelFailed(1) /\ LevelFailed(2)
    /\ levels[3].r = Result(Rat(1, 2), NoError)
    /\ ret.err = NoError
    /\ ret.eff = Rat(1, 2)

\* getProcessCgroupPath has returned a path
Found == lookup.err = NoError

\* C5: in V1 mode the lookup returns the path of a line whose controller list
\* has cpu as one of its controllers, not that of a line listing only cpuset
\* or cpuacct; in V2 mode the path of the line whose controller list is
\* empty; when no line matches, the lookup fails and no walk is performed.
C5_LookupSelectsCpuLine ==
    /\ Found => LineOf(version, lookup.parts) /\ lookup.path = lookup.parts[3]
    /\ lookup.err \notin {"none", NoError} => levels = <<>> /\ pc # "walk"

\* C6: an unlimited marker gives the level the sample +Inf and no error: in
\* V1 a quota of exactly -1, whatever the period file holds or lacks; in V2
\* a cpu.max of a quota token "max" and a period token, whatever that is.
C6_Unlimited ==
    levels # <<>> =>
        /\ version = "v1" /\ files[1] = FileOf(<<<<"-", "1">>>>)
              => levels[Len(levels)].r = Result(Inf, NoError)
        /\ version = "v2" /\ files[1].exists /\ Len(files[1].fields) = 2
              /\ files[1].fields[1] = tMax
              => levels[Len(levels)].r = Result(Inf, NoError)

\* a V1 level of quota -1 beside a malformed period file was sampled as +Inf
C6_Witness ==
    /\ version = "v1"
    /\ levels # <<>>
    /\ files = <<FileOf(<<<<"-", "1">>>>), FileOf(<<tBad>>)>>
    /\ levels[Len(levels)].r = Result(Inf, NoError)

\* C7: with the v2 marker present the V2 resolution is taken, also beside a
\* V1 cpu directory; the V1 resolution is taken only without the marker and
\* with the directory; with neither, the result is (0, 0) without an error
\* and /proc/self/cgroup is never opened.
C7_Detection ==
    pc \notin {"main", "detect"} =>
        /\ v2Marker => version = "v2"
        /\ version = "v1" <=> ~v2Marker /\ v1Dir
        /\ version = "v2" /\ pc \notin {"open", "scan"} /\ Found =>
              rootPath = <<"sys", "fs", "cgroup">> /\ lookup.parts[2] = <<>>
        /\ version = "v1" /\ pc \notin {"open", "scan"} /\ Found =>
              rootPath = <<"sys", "fs", "cgroup", "cpu">> /\ lookup.parts[2] # <<>>
        /\ ~v2Marker /\ ~v1Dir =>
              /\ version = "none"
              /\ member.state = "unopened" /\ lookup = NoLookup /\ levels = <<>>
              /\ limit = Result(Whole(0), NoError)
              /\ Returned => ret = [eff |-> Whole(0), adj |-> Whole(0), err |-> NoError]

\* marker and V1 directory both present, the V2 hierarchy was walked
C7_Witness ==
    /\ v2Marker /\ v1Dir
    /\ pc = "done"
    /\ version = "v2"
    /\ Walked /\ levels # <<>>
    /\ rootPath = <<"sys", "fs", "cgroup">>

Metrics == <<"NumCPU", "$GOMAXPROCS", "sched_getaffinity(2)", "runtime.GOMAXPROCS(-1)">>

\* C8: the four metric lines are printed before the cgroup resolution starts,
\* whatever its outcome; the report then ends with exactly one of the error
\* message (when the resolution returned an error), "not in cgroup" (exactly
\* when it returned no error, effective 0 and adjusted 0) and the effective /
\* adjusted line (otherwise); a single V1 level of quota -1 ends with "not in
\* cgroup".
C8_Report ==
    /\ pc = "main" => out = <<>>
    /\ pc = "main" \/ pc = "detect" =>
          version = "none" /\ member.state = "unopened" /\ limit = NoLimit /\ levels = <<>>
    /\ pc # "main" => Len(out) >= 8 /\ SubSeq(out, 4, 7) = Metrics
    /\ pc \notin {"main", "done"} => Len(out) = 8
    /\ pc = "done" =>
          /\ Len(out) = 9
          /\ out[9] = "error retrieving cgroup limits" <=> ret.err # NoError
          /\ out[9] = "not in cgroup" <=>
                ret.err = NoError /\ ret.eff = Whole(0) /\ ret.adj = Whole(0)
          /\ out[9] = "effective -- adjusted" <=>
                ret.err = NoError /\ ~(ret.eff = Whole(0) /\ ret.adj = Whole(0))
          /\ version = "v1" /\ Walked /\ Len(levels) = 1
                /\ files[1] = FileOf(<<<<"-", "1">>>>) => out[9] = "not in cgroup"

\* the report of a single V1 level of quota -1 has ended with "not in cgroup"
C8_Witness ==
    /\ pc = "done"
    /\ version = "v1" /\ Walked /\ Len(levels) = 1
    /\ files[1] = FileOf(<<<<"-", "1">>>>)
    /\ out = Append(<<"title", "based on", "">> \o Metrics \o <<"cgroup limit">>, "not in cgroup")

\* C9: for every cgroup path read from /proc/self/cgroup (empty, "/", with
\* repeated slashes, with ".." leaving the mount root) the walk terminates:
\* every iteration stops at the mount root or at "/", or moves to a parent
\* one name shorter, so no directory is sampled twice, the walk makes at
\* most one iteration per name of the leaf directory and one more, and an
\* unfinished walk can always take its next iteration.
C9_WalkTerminates ==
    /\ pc = "walk" => ENABLED WalkStep
    /\ pc = "walked" => ENABLED WalkReturn
    /\ Len(levels) <= Len(startPath) + 1
    /\ \A i \in 1..Len(levels) : Len(levels[i].dir) = Len(startPath) - i + 1
    /\ \A i, j \in 1..Len(levels) : levels[i].dir = levels[j].dir => i = j
    /\ pc = "walk" /\ levels # <<>> => Len(currentPath) < Len(levels[Len(levels)].dir)
    /\ pc = "walked" => currentPath = rootPath \/ currentPath = <<>>
    /\ Found /\ pc # "scan" => Len(startPath) <= Len(rootOf(version)) - 1 + Len(lookup.path)

\* a walk from a path that leaves the mount root has stopped at "/"
C9_Witness ==
    /\ Walked
    /\ lookup.path = <<"", "..", "s">>
    /\ ~IsPrefix(rootPath, startPath)
    /\ Len(levels) = Len(startPath) + 1
    /\ levels[Len(levels)].dir = <<>>

\* C10: cgroupLimit returns (0, 0, nil), and the report prints "not in
\* cgroup", only if no level of the walk gave a finite sample; whenever a
\* level gives a finite sample (a quota of 0 over a positive period
\* included), the effective limit returned is the minimum, the adjusted
\* limit is at least 2 and the report prints the effective / adjusted line.
C10_SentinelUnambiguous ==
    pc = "done" /\ Walked =>
        /\ ret = [eff |-> Whole(0), adj |-> Whole(0), err |-> NoError] \/ out[9] = "not in cgroup"
              => FiniteSamples = {}
        /\ FiniteSamples # {} =>
              /\ ret.eff = Least(Samples)
              /\ FloatLeq(Whole(2), ret.adj)
              /\ out[9] = "effective -- adjusted"

====
